---- MODULE Spec2Model ----
(***************************************************************************)
(* MDP-GapE planner (rl_agents/agents/tree_search/mdp_gape.py): the tree   *)
(* of DecisionNode / ChanceNode, one simulated episode (MDPGapE.run), the  *)
(* episode loop and stopping rule (MDPGapE.plan), the receding-horizon     *)
(* step of the planner (MDPGapE.step) and of the agent                     *)
(* (MDPGapEAgent.step, MDPGapEAgent.record).                               *)
(*                                                                         *)
(* Real numbers are exact rationals <<numerator, denominator>>.            *)
(***************************************************************************)
EXTENDS Integers, Sequences, FiniteSets

(* ------------------------------ bounds -------------------------------- *)
\* config["horizon"]
Horizon == 2
\* config["episodes"]
Episodes == 1
\* a non-default config["max_next_states_count"]
MaxNextStates == 2
\* config["receding_horizon"] of the agent
RecedingHorizon == 3
\* number of simulated episodes in one run of the program
MaxRuns == 4
\* number of actions of the root in the selection that SpecBAI checks
Arms == 3

(* ------------------------- program constants -------------------------- *)
\* default config["max_next_states_count"]
DefaultMaxNextStates == 1

(* ------------------------------ simulator ----------------------------- *)
\* range(state.action_space.n)
Actions == {0, 1}
\* the observations state.step can return
Observations == {1, 2}

(* ----------------------------- rationals ------------------------------ *)
RECURSIVE GCD(_, _)
GCD(a, b) == IF b = 0 THEN a ELSE GCD(b, a % b)

Abs(x) == IF x < 0 THEN -x ELSE x

\* the rational n/d (d # 0) in lowest terms with a positive denominator
Rat(n, d) ==
    LET g == GCD(Abs(n), Abs(d))
        s == IF d < 0 THEN -1 ELSE 1
    IN  <<(s * n) \div g, (s * d) \div g>>

Zero == <<0, 1>>
One == <<1, 1>>
\* -np.infty, the initial gap
NegInf == <<-1, 0>>

RAdd(x, y) == Rat(x[1] * y[2] + y[1] * x[2], x[2] * y[2])
RSub(x, y) == Rat(x[1] * y[2] - y[1] * x[2], x[2] * y[2])
RMul(x, y) == Rat(x[1] * y[1], x[2] * y[2])
RDiv(x, y) == Rat(x[1] * y[2], x[2] * y[1])
RLt(x, y) == x[1] * y[2] < y[1] * x[2]
RLe(x, y) == x[1] * y[2] <= y[1] * x[2]
\* Python's max(x, y) on floats, -inf included: y only when it is greater
RMax(x, y) ==
    IF x = NegInf THEN y
    ELSE IF y = NegInf THEN x
    ELSE IF RLt(x, y) THEN y ELSE x

RECURSIVE RPow(_, _)
\* x ** k for an integer k of either sign
RPow(x, k) ==
    IF k = 0 THEN One
    ELSE IF k > 0 THEN RMul(x, RPow(x, k - 1))
    ELSE RDiv(RPow(x, k + 1), x)

(* --------------------------- configuration ---------------------------- *)
\* config["gamma"]
Gamma == <<1, 2>>
\* config["accuracy"]
Accuracy == <<1, 2>>

(* ------------------------------- nodes -------------------------------- *)
\* a node is named by the path of child slots from the first root
NoNode == <<-1>>
\* next_observation = None
NoObs == 0

\* "placeholder_{}".format(i)
PlaceholderKey(i) == <<"placeholder", i>>
\* str(observation)
StateId(observation) == <<"str", observation>>

\* (1 - gamma ** (H - depth)) / (1 - gamma)
InitialValue(depth) ==
    RDiv(RSub(One, RPow(Gamma, Horizon - depth)), RSub(One, Gamma))

\* rl_agents.utils.kl_upper_bound: a confidence bound on the mean of `count`
\* rewards in [0, 1] summing to `cumulative_reward`; the trivial bound when
\* count = 0
kl_upper_bound(cumulative_reward, count, lower) ==
    IF lower THEN Rat(cumulative_reward, count + 1)
    ELSE Rat(cumulative_reward + 1, count + 1)

\* DecisionNode.__init__ (with OLOPNode.__init__ and Node.__init__)
DecisionNode(t, parent) ==
    LET depth == IF parent = NoNode THEN 0 ELSE t[parent].depth + 1
    IN  [kind |-> "DecisionNode", parent |-> parent, children |-> <<>>,
         depth |-> depth, count |-> 0, cumulative_reward |-> 0,
         mu_ucb |-> One, mu_lcb |-> Zero,
         value |-> InitialValue(depth), value_lower |-> Zero,
         gap |-> NegInf]

\* ChanceNode.__init__: no cumulative_reward and no mu_ucb of its own
ChanceNode(t, parent) ==
    [kind |-> "ChanceNode", parent |-> parent, children |-> <<>>,
     depth |-> t[parent].depth, count |-> 0, cumulative_reward |-> 0,
     mu_ucb |-> Zero, mu_lcb |-> Zero,
     value |-> InitialValue(t[parent].depth), value_lower |-> Zero,
     gap |-> NegInf]

\* the tree t with the nodes of `new` added
AddNodes(t, new) ==
    [x \in DOMAIN t \cup DOMAIN new |->
        IF x \in DOMAIN new THEN new[x] ELSE t[x]]

HasChildren(t, n) == DOMAIN t[n].children # {}

\* the child nodes of n
ChildNodes(t, n) == {t[n].children[k] : k \in DOMAIN t[n].children}

\* DecisionNode.expand: one ChanceNode per action of the action space
DecisionNodeExpand(t, n) ==
    LET kids == [a \in Actions |-> Append(n, a)]
        new == [c \in {kids[a] : a \in Actions} |-> ChanceNode(t, n)]
    IN  AddNodes([t EXCEPT ![n].children = kids], new)

\* DecisionNode.get_child: <<tree, child, action>>
DecisionNodeGetChild(t, n, action) ==
    LET t1 == IF HasChildren(t, n) THEN t ELSE DecisionNodeExpand(t, n)
        keys == DOMAIN t1[n].children
        first == CHOOSE a \in keys : \A b \in keys : a <= b
        act == IF action \in keys THEN action ELSE first
    IN  <<t1, t1[n].children[act], act>>

\* ChanceNode.expand: max_next_states_count placeholder DecisionNodes
ChanceNodeExpand(t, c, K) ==
    LET kids == [k \in {PlaceholderKey(i) : i \in 0 .. (K - 1)} |->
                    Append(c, k[2])]
        new == [d \in {Append(c, i) : i \in 0 .. (K - 1)} |-> DecisionNode(t, c)]
    IN  AddNodes([t EXCEPT ![c].children = kids], new)

\* the placeholder slots of c that no observation has claimed yet
FreePlaceholders(t, c, K) ==
    {i \in 0 .. (K - 1) : PlaceholderKey(i) \in DOMAIN t[c].children}

\* the children of c with key `old` renamed to `new`
Rekey(children, old, new) ==
    [k \in (DOMAIN children \ {old}) \cup {new} |->
        IF k = new THEN children[old] ELSE children[k]]

\* a get_child that merges an observation into the first child when no
\* placeholder is left
ChanceNodeGetChildMerging(t, c, observation, K) ==
    LET t1 == IF HasChildren(t, c) THEN t ELSE ChanceNodeExpand(t, c, K)
        state_id == StateId(observation)
        free == FreePlaceholders(t1, c, K)
        i == CHOOSE x \in free : \A y \in free : x <= y
        t2 == [t1 EXCEPT ![c].children =
                  Rekey(@, PlaceholderKey(i), state_id)]
        any == CHOOSE k \in DOMAIN t1[c].children : TRUE
    IN  IF state_id \in DOMAIN t1[c].children
        THEN <<t1, t1[c].children[state_id], FALSE>>
        ELSE IF free = {}
        THEN <<t1, t1[c].children[any], FALSE>>
        ELSE <<t2, t2[c].children[state_id], FALSE>>

\* ChanceNode.get_child(observation): <<tree, child, raised>>; raised is
\* the ValueError "No more placeholder nodes available"
ChanceNodeGetChild(t, c, observation, K) ==
    LET t1 == IF HasChildren(t, c) THEN t ELSE ChanceNodeExpand(t, c, K)
        state_id == StateId(observation)
        free == FreePlaceholders(t1, c, K)
        i == CHOOSE x \in free : \A y \in free : x <= y
        t2 == [t1 EXCEPT ![c].children =
                  Rekey(@, PlaceholderKey(i), state_id)]
    IN  IF state_id \in DOMAIN t1[c].children
        THEN <<t1, t1[c].children[state_id], FALSE>>
        ELSE IF free = {}
        THEN <<t1, NoNode, TRUE>>
        ELSE <<t2, t2[c].children[state_id], FALSE>>

\* an update that does not count the visit
ChanceNodeUpdateSkipped(t, c) == t

\* ChanceNode.update
ChanceNodeUpdate(t, c) == [t EXCEPT ![c].count = @ + 1]

\* DecisionNode.compute_ucb, "kullback-leibler" bound
compute_ucb(node) ==
    [node EXCEPT
        !.mu_ucb = kl_upper_bound(node.cumulative_reward, node.count, FALSE),
        !.mu_lcb = kl_upper_bound(node.cumulative_reward, node.count, TRUE)]

\* OLOPNode.update(reward, done), inherited by DecisionNode
DecisionNodeUpdate(t, n, reward) ==
    [t EXCEPT ![n] = compute_ucb([@ EXCEPT
        !.cumulative_reward = @ + reward, !.count = @ + 1])]

(* ------------------------------ backup -------------------------------- *)
RECURSIVE Dot(_, _, _)
\* p @ x over the children keys S
Dot(p, x, S) ==
    IF S = {} THEN Zero
    ELSE LET k == CHOOSE e \in S : TRUE
         IN  RAdd(RMul(p[k], x[k]), Dot(p, x, S \ {k}))

\* ChanceNode.transition_threshold() is 0.1 * log(episodes): zero exactly
\* when one episode is planned
TransitionThresholdIsZero == Episodes = 1

\* rl_agents.utils.max_expectation_under_constraint(targets, p_hat, threshold):
\* a distribution within the divergence ball around p_hat that does at least
\* as well as p_hat on the targets, p_hat itself when the threshold is zero;
\* otherwise half of the mass is moved to a child of greatest target
max_expectation_under_constraint(targets, p_hat, zero_threshold) ==
    LET S == DOMAIN p_hat
        top == CHOOSE k \in S : \A j \in S : RLe(targets[j], targets[k])
    IN  IF zero_threshold THEN p_hat
        ELSE [k \in S |->
                 RAdd(RMul(<<1, 2>>, p_hat[k]),
                      IF k = top THEN <<1, 2>> ELSE Zero)]

\* the body of ChanceNode.backup_to_root: the node record with its new bounds
ChanceNodeBackup(t, c) ==
    LET children == t[c].children
        S == DOMAIN children
        u_next == [k \in S |->
                     RAdd(t[children[k]].mu_ucb, RMul(Gamma, t[children[k]].value))]
        l_next == [k \in S |->
                     RAdd(t[children[k]].mu_lcb,
                          RMul(Gamma, t[children[k]].value_lower))]
        neg_l_next == [k \in S |-> RSub(Zero, l_next[k])]
        p_hat == [k \in S |-> Rat(t[children[k]].count, t[c].count)]
        p_plus == max_expectation_under_constraint(u_next, p_hat,
                                                   TransitionThresholdIsZero)
        p_minus == max_expectation_under_constraint(neg_l_next, p_hat,
                                                    TransitionThresholdIsZero)
    IN  [t[c] EXCEPT !.value = Dot(p_plus, u_next, S),
                     !.value_lower = Dot(p_minus, l_next, S)]

RECURSIVE AMax(_, _, _)
\* np.amax of field f ("value" or "value_lower") over the nodes S of t
AMax(t, S, f) ==
    LET n == CHOOSE e \in S : TRUE
        x == IF f = "value" THEN t[n].value ELSE t[n].value_lower
    IN  IF S = {n} THEN x ELSE RMax(x, AMax(t, S \ {n}, f))

\* a backup that takes both bounds from the child of greatest value
DecisionNodeBackupOfOneChild(t, n) ==
    LET top == CHOOSE c \in ChildNodes(t, n) :
                   \A d \in ChildNodes(t, n) : RLe(t[d].value, t[c].value)
    IN  IF HasChildren(t, n)
        THEN [t[n] EXCEPT !.value = t[top].value,
                          !.value_lower = t[top].value_lower]
        ELSE [t[n] EXCEPT !.value = Zero, !.value_lower = Zero]

\* the body of DecisionNode.backup_to_root once its assertion has passed
DecisionNodeBackup(t, n) ==
    IF HasChildren(t, n)
    THEN [t[n] EXCEPT !.value = AMax(t, ChildNodes(t, n), "value"),
                      !.value_lower = AMax(t, ChildNodes(t, n), "value_lower")]
    ELSE [t[n] EXCEPT !.value = Zero, !.value_lower = Zero]

\* the assertion of DecisionNode.backup_to_root
BackupAssertion(t, n) == HasChildren(t, n) \/ t[n].depth = Horizon

\* where backup_to_root goes after node n: its parent, or nowhere at the root
BackupNext(t, n) == t[n].parent

RECURSIVE backup_to_root(_, _)
\* DecisionNode.backup_to_root and ChanceNode.backup_to_root from node n up
backup_to_root(t, n) ==
    LET t1 == [t EXCEPT ![n] = IF t[n].kind = "DecisionNode"
                               THEN DecisionNodeBackup(t, n)
                               ELSE ChanceNodeBackup(t, n)]
    IN  IF BackupNext(t1, n) = NoNode THEN t1
        ELSE backup_to_root(t1, BackupNext(t1, n))

(* ---------------------- best-arm identification ----------------------- *)
RECURSIVE GapLoop(_, _, _, _, _)
\* the inner loop of compute_children_gaps for child a, over the children
\* from key i on, in the order of the dictionary
GapLoop(t, n, a, i, gap) ==
    IF \A k \in DOMAIN t[n].children : k < i THEN gap
    ELSE IF i \notin DOMAIN t[n].children \/ i = a
    THEN GapLoop(t, n, a, i + 1, gap)
    ELSE GapLoop(t, n, a, i + 1,
                 RMax(gap, RSub(t[t[n].children[i]].value,
                                t[t[n].children[a]].value_lower)))

\* DecisionNode.compute_children_gaps
compute_children_gaps(t, n) ==
    [x \in DOMAIN t |->
        IF \E a \in DOMAIN t[n].children : t[n].children[a] = x
        THEN LET a == CHOOSE k \in DOMAIN t[n].children : t[n].children[k] = x
             IN  [t[x] EXCEPT !.gap = GapLoop(t, n, a, 0, NegInf)]
        ELSE t[x]]

\* Python's min(S, key): the first of the least, in the order of the keys
FirstMin(S, key) ==
    CHOOSE a \in S : \A b \in S :
        RLt(key[a], key[b]) \/ (~RLt(key[b], key[a]) /\ a <= b)

\* Python's max(S, key): the first of the greatest, in the order of the keys
FirstMax(S, key) ==
    CHOOSE a \in S : \A b \in S :
        RLt(key[b], key[a]) \/ (~RLt(key[a], key[b]) /\ a <= b)

Width(t, x) == RSub(t[x].value, t[x].value_lower)

\* a challenger chosen among all the children, best included
ChallengerAmongAll(t, n, best) ==
    LET kids == t[n].children
    IN  FirstMax(DOMAIN kids, [a \in DOMAIN kids |-> t[kids[a]].value])

\* the challenger: not best and highest value upper bound
Challenger(t, n, best) ==
    LET kids == t[n].children
    IN  FirstMax(DOMAIN kids \ {best}, [a \in DOMAIN kids |-> t[kids[a]].value])

\* the selected arm: of [best, challenger], the one of highest uncertainty
Selected(t, best, challenger) ==
    IF RLt(Width(t, best), Width(t, challenger)) THEN challenger ELSE best

\* DecisionNode.best_arm_identification_selection:
\* [tree, selected, best, challenger], the last three as nodes
best_arm_identification_selection(t, n) ==
    LET t1 == compute_children_gaps(t, n)
        kids == t1[n].children
        best == FirstMin(DOMAIN kids, [a \in DOMAIN kids |-> t1[kids[a]].gap])
        challenger == Challenger(t1, n, best)
    IN  [tree |-> t1,
         selected |-> Selected(t1, kids[best], kids[challenger]),
         best |-> kids[best],
         challenger |-> kids[challenger]]

\* next(node.path()): the key of node x among the children of n
PathKey(t, n, x) == CHOOSE a \in DOMAIN t[n].children : t[n].children[a] = x

(* ------------------------------- state -------------------------------- *)
VARIABLES
    config,              \* step_strategy, max_next_states_count, continuation_type
    nodes,               \* the tree: node -> its fields
    root,                \* planner.root
    pc,                  \* where the program is
    error,               \* the exception that ended the program, or "none"
    runs,                \* number of calls of MDPGapE.run so far
    episode, done,       \* locals of MDPGapE.plan
    best, challenger,    \* what the last MDPGapE.run returned
    state_node, h,       \* locals of MDPGapE.run
    action_node,         \* the ChanceNode of the last transition
    budget_used,         \* planner.budget_used
    plan_result,         \* what the last MDPGapE.plan returned
    next_observation,    \* planner.next_observation
    remaining_horizon,   \* agent.remaining_horizon
    extended_with,       \* what the last agent step appended to previous_actions
    replanning_required, \* what the last MDPGapEAgent.step returned
    selected,            \* the arm selected at the root in this episode
    last_action,         \* the action of the last transition of this episode
    path,                \* the nodes updated in this episode, in order
    sim_steps,           \* calls of state.step on this episode's copy
    observations,        \* the observations state.step returned in this episode
    step_actions,        \* the actions passed to the last step
    reached              \* the root that the last agent step found after planner.step

vars == <<config, nodes, root, pc, error, runs, episode, done, best,
          challenger, state_node, h, budget_used, plan_result,
          next_observation, remaining_horizon, extended_with,
          replanning_required, selected, last_action, path, sim_steps,
          observations, action_node, step_actions, reached>>

planVars == <<episode, done, best, challenger, budget_used, plan_result>>
runVars == <<state_node, h, action_node, selected, last_action, path,
            sim_steps, observations>>
agentVars == <<remaining_horizon, extended_with, replanning_required,
              step_actions, reached>>

\* MDPGapE.make_root: a tree of one DecisionNode without parent
make_root == [n \in {<<>>} |-> DecisionNode(<<>>, NoNode)]

\* the simulator: state.step(action) returns an observation, its reward and
\* whether the observed state is terminal. The environment is stochastic in
\* the state it is planned from: the first transition of an episode can lead
\* to any observation, a later one leads to the observation that the action
\* decides
Outcomes(steps, action) ==
    IF steps = 0 THEN Observations ELSE {1 + (action % Cardinality(Observations))}
Reward(observation) == IF observation = 1 THEN 1 ELSE 0
Terminal(observation) == observation = Cardinality(Observations)

StepStrategies == {"reset", "subtree"}
\* "uniform" is the default continuation_type
ContinuationTypes == {"uniform"}
NextStatesCounts == {DefaultMaxNextStates, MaxNextStates}

Init ==
    /\ config \in [step_strategy : StepStrategies,
                   max_next_states_count : NextStatesCounts,
                   continuation_type : ContinuationTypes]
    /\ nodes = make_root
    /\ root = <<>>
    /\ pc = "step"
    /\ error = "none"
    /\ runs = 0
    /\ episode = 0
    /\ done = FALSE
    /\ best = NoNode
    /\ challenger = NoNode
    /\ state_node = <<>>
    /\ h = 0
    /\ budget_used = 0
    /\ plan_result = <<>>
    /\ next_observation = NoObs
    /\ remaining_horizon = 0
    /\ extended_with = <<>>
    /\ replanning_required = FALSE
    /\ selected = NoNode
    /\ last_action = -1
    /\ path = <<>>
    /\ sim_steps = 0
    /\ observations = <<>>
    /\ action_node = NoNode
    /\ step_actions = <<>>
    /\ reached = NoNode

(* ---------------------------- MDPGapE.run ----------------------------- *)
\* the action at a leaf: np_random.randint(n) if "uniform", else 0
LeafActions(continuation_type) ==
    IF continuation_type = "uniform" THEN Actions ELSE {0}

\* the action at an inner node that is not the root ("Run UCB elsewhere")
UCBAction(t, n) ==
    LET kids == t[n].children
    IN  FirstMax(DOMAIN kids, [a \in DOMAIN kids |-> t[kids[a]].value])

\* "Select action" of MDPGapE.run at state_node: the possible
\* [tree, action, selected, best, challenger]
SelectAction ==
    IF ~HasChildren(nodes, state_node)
    THEN {[tree |-> nodes, action |-> a, selected |-> selected,
           best |-> best, challenger |-> challenger] :
             a \in LeafActions(config.continuation_type)}
    ELSE IF state_node = root
    THEN LET bai == best_arm_identification_selection(nodes, root)
         IN  {[tree |-> bai.tree,
               action |-> PathKey(bai.tree, root, bai.selected),
               selected |-> bai.selected,
               best |-> bai.best, challenger |-> bai.challenger]}
    ELSE {[tree |-> nodes, action |-> UCBAction(nodes, state_node),
           selected |-> selected, best |-> best, challenger |-> challenger]}

\* safe_deepcopy_env(state), state.seed(...) and the first lines of run
RunBegin ==
    /\ pc = "loop"
    /\ ~done
    /\ runs < MaxRuns
    /\ runs' = runs + 1
    /\ pc' = "run"
    /\ best' = NoNode
    /\ challenger' = NoNode
    /\ state_node' = root
    /\ h' = 0
    /\ selected' = NoNode
    /\ last_action' = -1
    /\ path' = <<>>
    /\ sim_steps' = 0
    /\ observations' = <<>>
    /\ action_node' = NoNode
    /\ UNCHANGED <<config, nodes, root, error, episode, done,
                   budget_used, plan_result, next_observation, agentVars>>

\* one iteration of the loop of MDPGapE.run
RunStep ==
    /\ pc = "run"
    /\ h < Horizon
    /\ \E sel \in SelectAction :
       \E observation \in Outcomes(sim_steps, sel.action) :
         LET gc == DecisionNodeGetChild(sel.tree, state_node, sel.action)
             oc == ChanceNodeGetChild(gc[1], gc[2], observation,
                                      config.max_next_states_count)
         IN  /\ ~oc[3]
             /\ nodes' = DecisionNodeUpdate(ChanceNodeUpdate(oc[1], gc[2]),
                                            oc[2], Reward(observation))
             /\ state_node' = oc[2]
             /\ action_node' = gc[2]
             /\ path' = path \o <<gc[2], oc[2]>>
             /\ last_action' = gc[3]
             /\ observations' = Append(observations, observation)
             /\ selected' = sel.selected
             /\ best' = sel.best
             /\ challenger' = sel.challenger
    /\ h' = h + 1
    /\ sim_steps' = sim_steps + 1
    /\ UNCHANGED <<config, root, pc, error, runs, episode, done, budget_used,
                   plan_result, next_observation, agentVars>>

\* an iteration in which ChanceNode.get_child raises the capacity error
RunStepRaise ==
    /\ pc = "run"
    /\ h < Horizon
    /\ \E sel \in SelectAction :
       \E observation \in Outcomes(sim_steps, sel.action) :
         LET gc == DecisionNodeGetChild(sel.tree, state_node, sel.action)
             oc == ChanceNodeGetChild(gc[1], gc[2], observation,
                                      config.max_next_states_count)
         IN  /\ oc[3]
             /\ nodes' = oc[1]
             /\ action_node' = gc[2]
             /\ last_action' = gc[3]
             /\ observations' = Append(observations, observation)
             /\ selected' = sel.selected
             /\ best' = sel.best
             /\ challenger' = sel.challenger
    /\ sim_steps' = sim_steps + 1
    /\ pc' = "crashed"
    /\ error' = "ValueError"
    /\ UNCHANGED <<config, root, runs, episode, done, budget_used, plan_result,
                   next_observation, agentVars, state_node, h, path>>

\* "Backup global statistics" and the return of MDPGapE.run
RunBackup ==
    /\ pc = "run"
    /\ h = Horizon
    /\ BackupAssertion(nodes, state_node)
    /\ nodes' = backup_to_root(nodes, state_node)
    /\ pc' = "check"
    /\ UNCHANGED <<config, root, error, runs, planVars, next_observation,
                   agentVars, runVars>>

\* the assertion of DecisionNode.backup_to_root fails
RunBackupAssert ==
    /\ pc = "run"
    /\ h = Horizon
    /\ ~BackupAssertion(nodes, state_node)
    /\ pc' = "crashed"
    /\ error' = "AssertionError"
    /\ UNCHANGED <<config, nodes, root, runs, planVars, next_observation,
                   agentVars, runVars>>

(* ---------------------------- MDPGapE.plan ---------------------------- *)
\* the start of MDPGapE.plan
PlanBegin ==
    /\ pc = "plan"
    /\ done' = FALSE
    /\ episode' = 0
    /\ pc' = "loop"
    /\ step_actions' = <<>>
    /\ reached' = NoNode
    /\ UNCHANGED <<config, nodes, root, error, runs, best, challenger,
                   budget_used, plan_result, next_observation,
                   remaining_horizon, extended_with, replanning_required,
                   runVars>>

\* the value of `done` after an episode that returned (b, c)
StoppingRule(t, b, c, ep) ==
    \/ (b # NoNode /\ RLt(RSub(t[c].value, t[b].value_lower), Accuracy))
    \/ ep > Episodes

\* "Stopping rule" of MDPGapE.plan, and episode += 1
PlanCheck ==
    /\ pc = "check"
    /\ done' = StoppingRule(nodes, best, challenger, episode)
    /\ episode' = episode + 1
    /\ pc' = "loop"
    /\ UNCHANGED <<config, nodes, root, error, runs, best, challenger,
                   budget_used, plan_result, next_observation, agentVars,
                   runVars>>

\* MDPGapE.get_plan: [tree, plan], the plan being [root.selection_rule()]
get_plan(t, r) ==
    LET bai == best_arm_identification_selection(t, r)
    IN  [tree |-> bai.tree, plan |-> <<PathKey(bai.tree, r, bai.best)>>]

\* the end of MDPGapE.plan
PlanReturn ==
    /\ pc = "loop"
    /\ done
    /\ budget_used' = episode * Horizon
    /\ nodes' = get_plan(nodes, root).tree
    /\ plan_result' = get_plan(nodes, root).plan
    /\ pc' = "record"
    /\ episode' = 0
    /\ done' = FALSE
    /\ best' = NoNode
    /\ challenger' = NoNode
    /\ state_node' = root
    /\ h' = 0
    /\ selected' = NoNode
    /\ last_action' = -1
    /\ path' = <<>>
    /\ sim_steps' = 0
    /\ observations' = <<>>
    /\ action_node' = NoNode
    /\ UNCHANGED <<config, root, error, runs, next_observation, agentVars>>

(* ------------------------ receding horizon ---------------------------- *)
\* MDPGapEAgent.record
Record ==
    /\ pc = "record"
    /\ \E next_state \in Observations : next_observation' = next_state
    /\ pc' = "step"
    /\ UNCHANGED <<config, nodes, root, error, runs, planVars, agentVars,
                   runVars>>

IsPrefix(p, q) == Len(p) <= Len(q) /\ SubSeq(q, 1, Len(p)) = p

\* AbstractPlanner.step_by_reset: <<tree, root>>
step_by_reset == <<make_root, <<>>>>

\* AbstractPlanner.step_by_subtree(key) on the tree tr = <<tree, root>>:
\* the child under `key` becomes the root and loses its parent
step_by_subtree(tr, key) ==
    LET t == tr[1]
        r == tr[2]
        child == t[r].children[key]
    IN  IF key \in DOMAIN t[r].children
        THEN <<[x \in {y \in DOMAIN t : IsPrefix(child, y)} |->
                  IF x = child THEN [t[x] EXCEPT !.parent = NoNode] ELSE t[x]],
               child>>
        ELSE step_by_reset

\* MDPGapE.step(actions): <<tree, root>>
MDPGapEStep(t, r, actions, strategy, observation) ==
    IF strategy = "reset" THEN step_by_reset
    ELSE IF strategy = "subtree"
    THEN IF actions # <<>>
         THEN step_by_subtree(step_by_subtree(<<t, r>>, actions[1]),
                              StateId(observation))
         ELSE step_by_reset
    ELSE step_by_reset

\* the `actions` a caller passes to step
StepArguments == {<<>>} \cup {<<a>> : a \in Actions}

\* MDPGapE.step called by a program that plans after every step
PlannerStep ==
    /\ pc = "step"
    /\ \E actions \in StepArguments :
         LET tr == MDPGapEStep(nodes, root, actions, config.step_strategy,
                               next_observation)
         IN  /\ nodes' = tr[1]
             /\ root' = tr[2]
             /\ step_actions' = actions
    /\ pc' = "plan"
    /\ UNCHANGED <<config, error, runs, planVars, next_observation,
                   remaining_horizon, extended_with, replanning_required,
                   reached, runVars>>

\* an agent step that keeps the subtree even when it has no children
MDPGapEAgentStepKeeping(t, r, actions, strategy, observation, remaining) ==
    LET tr == MDPGapEStep(t, r, actions, strategy, observation)
    IN  IF remaining = 0
        THEN [tree |-> step_by_reset[1], root |-> step_by_reset[2],
              remaining_horizon |-> RecedingHorizon - 1,
              extended_with |-> <<>>, replanning_required |-> TRUE,
              reached |-> NoNode]
        ELSE [tree |-> tr[1], root |-> tr[2],
              remaining_horizon |-> remaining - 1,
              extended_with |-> <<>>,
              replanning_required |-> FALSE, reached |-> tr[2]]

\* MDPGapEAgent.step(actions):
\* [tree, root, remaining_horizon, extended_with, replanning_required,
\*  reached]
MDPGapEAgentStep(t, r, actions, strategy, observation, remaining) ==
    LET tr == MDPGapEStep(t, r, actions, strategy, observation)
        plan == get_plan(tr[1], tr[2])
    IN  IF remaining = 0
        THEN [tree |-> step_by_reset[1], root |-> step_by_reset[2],
              remaining_horizon |-> RecedingHorizon - 1,
              extended_with |-> <<>>, replanning_required |-> TRUE,
              reached |-> NoNode]
        ELSE IF HasChildren(tr[1], tr[2])
        THEN [tree |-> plan.tree, root |-> tr[2],
              remaining_horizon |-> remaining - 1,
              extended_with |-> plan.plan,
              replanning_required |-> FALSE, reached |-> tr[2]]
        ELSE [tree |-> step_by_reset[1], root |-> step_by_reset[2],
              remaining_horizon |-> remaining - 1,
              extended_with |-> <<>>, replanning_required |-> TRUE,
              reached |-> tr[2]]

\* MDPGapEAgent.step called by the agent, which plans when it returns True
AgentStep ==
    /\ pc = "step"
    /\ \E actions \in StepArguments :
         LET res == MDPGapEAgentStep(nodes, root, actions, config.step_strategy,
                                     next_observation, remaining_horizon)
         IN  /\ nodes' = res.tree
             /\ root' = res.root
             /\ remaining_horizon' = res.remaining_horizon
             /\ extended_with' = res.extended_with
             /\ replanning_required' = res.replanning_required
             /\ reached' = res.reached
             /\ step_actions' = actions
             /\ pc' = IF res.replanning_required THEN "plan" ELSE "record"
    /\ UNCHANGED <<config, error, runs, planVars, next_observation, runVars>>

Next ==
    \/ PlanBegin
    \/ RunBegin
    \/ RunStep
    \/ RunStepRaise
    \/ RunBackup
    \/ RunBackupAssert
    \/ PlanCheck
    \/ PlanReturn
    \/ Record
    \/ PlannerStep
    \/ AgentStep

Spec == Init /\ [][Next]_vars

(* ------------- best-arm identification on arbitrary bounds ------------ *)
\* the bounds a child of the root can have
BoundValues == {Zero, <<1, 2>>, One}

\* a root expanded over Arms actions whose children have the given bounds
RootWithBounds(bounds) ==
    LET kids == [a \in 0 .. (Arms - 1) |-> <<a>>]
        top == [make_root EXCEPT ![<<>>].children = kids]
    IN  [x \in {<<>>} \cup {kids[a] : a \in DOMAIN kids} |->
            IF x = <<>> THEN top[<<>>]
            ELSE [ChanceNode(top, <<>>) EXCEPT
                     !.value = bounds[x[1]][1],
                     !.value_lower = bounds[x[1]][2]]]

InitBAI ==
    /\ config = [step_strategy |-> "reset",
                 max_next_states_count |-> DefaultMaxNextStates,
                 continuation_type |-> "uniform"]
    /\ \E bounds \in [0 .. (Arms - 1) -> BoundValues \X BoundValues] :
          nodes = RootWithBounds(bounds)
    /\ root = <<>>
    /\ pc = "select"
    /\ error = "none"
    /\ runs = 0
    /\ episode = 0
    /\ done = FALSE
    /\ best = NoNode
    /\ challenger = NoNode
    /\ state_node = <<>>
    /\ h = 0
    /\ budget_used = 0
    /\ plan_result = <<>>
    /\ next_observation = NoObs
    /\ remaining_horizon = 0
    /\ extended_with = <<>>
    /\ replanning_required = FALSE
    /\ selected = NoNode
    /\ last_action = -1
    /\ path = <<>>
    /\ sim_steps = 0
    /\ observations = <<>>
    /\ action_node = NoNode
    /\ step_actions = <<>>
    /\ reached = NoNode

\* root.best_arm_identification_selection()
Select ==
    /\ pc = "select"
    /\ LET bai == best_arm_identification_selection(nodes, root)
       IN  /\ nodes' = bai.tree
           /\ selected' = bai.selected
           /\ best' = bai.best
           /\ challenger' = bai.challenger
    /\ pc' = "selected"
    /\ UNCHANGED <<config, root, error, runs, episode, done, state_node, h,
                   action_node, budget_used, plan_result, next_observation,
                   agentVars, last_action, path, sim_steps, observations>>

NextBAI == Select

SpecBAI == InitBAI /\ [][NextBAI]_vars

(* ------------------------------ claims -------------------------------- *)
DecisionNodes == {n \in DOMAIN nodes : nodes[n].kind = "DecisionNode"}
ChanceNodes == {n \in DOMAIN nodes : nodes[n].kind = "ChanceNode"}

\* C1: one call of plan simulates at most Episodes episodes, so that
\* budget_used never exceeds Episodes * Horizon
C1_EpisodeCap ==
    /\ episode <= Episodes
    /\ budget_used <= Episodes * Horizon

\* C3: every node of the tree has value_lower <= value
C3_BoundSoundness ==
    \A n \in DOMAIN nodes : RLe(nodes[n].value_lower, nodes[n].value)

\* the bounds are sound as long as no subtree was kept by a step
C3_SoundFromDepthZero ==
    nodes[root].depth = 0 => C3_BoundSoundness

\* C5: the pair that the stopping rule tests after an episode is the pair of
\* best_arm_identification_selection on the bounds after that episode's
\* backup, and the plan returned is the action of the best candidate of the
\* stopping test that ended planning
C5_StoppingPairIsCurrent ==
    /\ (pc = "check" /\ best # NoNode) =>
          LET bai == best_arm_identification_selection(nodes, root)
          IN  best = bai.best /\ challenger = bai.challenger
    /\ (pc = "loop" /\ done /\ best # NoNode) =>
          get_plan(nodes, root).plan = <<PathKey(nodes, root, best)>>

\* the tree alternates DecisionNode -> ChanceNode -> DecisionNode
Alternates ==
    \A n \in DOMAIN nodes : \A x \in ChildNodes(nodes, n) :
        /\ x \in DOMAIN nodes
        /\ nodes[x].kind # nodes[n].kind
        /\ nodes[x].parent = n

\* C7: the tree alternates, no DecisionNode is deeper than the horizon, the
\* node an episode's backup starts from has depth = horizon and the
\* assertion of DecisionNode.backup_to_root never fails
C7_DepthWithinHorizon ==
    /\ Alternates
    /\ nodes[root].kind = "DecisionNode"
    /\ \A n \in DecisionNodes : nodes[n].depth <= Horizon
    /\ (pc = "run" /\ h = Horizon) => nodes[state_node].depth = Horizon
    /\ error # "AssertionError"

\* the actions of state_node whose ChanceNode has the greatest value
GreatestValueActions ==
    LET kids == nodes[state_node].children
    IN  {a \in DOMAIN kids :
            \A b \in DOMAIN kids : RLe(nodes[kids[b]].value, nodes[kids[a]].value)}

\* C8: at a non-root DecisionNode with children the action of the episode is
\* one of greatest upper bound, and every action tied for it can be the one
\* selected
C8_TiesAtRandom ==
    (pc = "run" /\ h < Horizon /\ state_node # root
        /\ HasChildren(nodes, state_node)) =>
    \A a \in GreatestValueActions :
        ENABLED ((RunStep \/ RunStepRaise) /\ last_action' = a)

\* the keys of the children of c that observations have claimed
BoundKeys(children) == {k \in DOMAIN children : k[1] = "str"}

\* the children of node c before a transition; none when c is created by it
ChildrenBefore(c) == IF c \in DOMAIN nodes THEN nodes[c].children ELSE <<>>

\* the effect of ChanceNode.get_child in the transition that just happened
CapacityRule ==
    LET c == action_node'
        K == config.max_next_states_count
        k == StateId(observations'[Len(observations')])
        before == ChildrenBefore(c)
        after == nodes'[c].children
        placeholders == IF before = <<>>
                        THEN {Append(c, i) : i \in 0 .. (K - 1)}
                        ELSE {before[j] : j \in DOMAIN before \ BoundKeys(before)}
    IN  IF k \in DOMAIN before
        THEN /\ error' = "none"
             /\ after = before
             /\ state_node' = before[k]
        ELSE IF Cardinality(BoundKeys(before)) < K
        THEN /\ error' = "none"
             /\ state_node' = after[k]
             /\ after[k] \in placeholders
             /\ BoundKeys(after) = BoundKeys(before) \cup {k}
             /\ Cardinality(DOMAIN after) = K
             /\ \A j \in BoundKeys(before) :
                    after[j] = before[j] /\ after[j] # after[k]
        ELSE /\ error' = "ValueError"
             /\ pc' = "crashed"
             /\ after = before
             /\ \A n \in DOMAIN nodes : nodes'[n].children = nodes[n].children

\* C2: the first max_next_states_count distinct outcomes of a ChanceNode each
\* claim one placeholder, a repeated outcome returns the child it was bound
\* to, and one more distinct outcome raises the capacity error without being
\* bound or merged and without changing the children
C2_Capacity == [][(RunStep \/ RunStepRaise) => CapacityRule]_vars

\* the capacity error was raised at a ChanceNode whose placeholders were all
\* claimed by other outcomes
C2_Witness ==
    /\ error = "ValueError"
    /\ Cardinality(BoundKeys(nodes[action_node].children))
          = config.max_next_states_count
    /\ StateId(observations[Len(observations)])
          \notin DOMAIN nodes[action_node].children

\* a tree that step_by_reset has just made
FreshTree(t, r) ==
    /\ DOMAIN t = {r}
    /\ t[r].kind = "DecisionNode"
    /\ t[r].parent = NoNode
    /\ t[r].depth = 0
    /\ t[r].count = 0
    /\ t[r].cumulative_reward = 0
    /\ ~HasChildren(t, r)

\* the effect of MDPGapEAgent.step in the transition that just happened
FallbackRule ==
    LET a == step_actions'
        k == StateId(next_observation)
        pruned == /\ remaining_horizon # 0
                  /\ config.step_strategy = "subtree"
                  /\ a # <<>>
                  /\ a[1] \in DOMAIN nodes[root].children
                  /\ k \in DOMAIN nodes[nodes[root].children[a[1]]].children
        target == nodes[nodes[root].children[a[1]]].children[k]
    IN  IF pruned /\ HasChildren(nodes, target)
        THEN /\ ~replanning_required'
             /\ root' = target
             /\ nodes'[root'].kind = "DecisionNode"
             /\ nodes'[root'].parent = NoNode
             /\ HasChildren(nodes', root')
        ELSE /\ replanning_required'
             /\ FreshTree(nodes', root')

\* C4: when the node the agent's step prunes to has no children, or the
\* action or the outcome is not in the tree, the step ends with a freshly
\* reset tree and returns True; it returns False only when the retained
\* root is a DecisionNode with children
C4_Fallback == [][AgentStep => FallbackRule]_vars

\* the agent's step pruned to a node without children and fell back to reset
C4_Witness ==
    /\ pc = "plan"
    /\ replanning_required
    /\ reached # NoNode
    /\ reached # <<>>
    /\ FreshTree(nodes, root)

\* v is the greatest of the field f of the nodes S
IsGreatest(v, S, f) ==
    /\ \E c \in S : v = (IF f = "value" THEN nodes[c].value
                         ELSE nodes[c].value_lower)
    /\ \A c \in S : RLe(IF f = "value" THEN nodes[c].value
                        ELSE nodes[c].value_lower, v)

\* C6: each child's gap is the maximum over the other children of
\* other.value - child.value_lower, best has minimum gap, challenger is a
\* child other than best of greatest value among the others, and selected is
\* the one of best and challenger of larger width
C6_Selection ==
    pc = "selected" =>
        LET kids == ChildNodes(nodes, root)
        IN  /\ \A c \in kids :
                 /\ \E o \in kids \ {c} :
                      nodes[c].gap = RSub(nodes[o].value, nodes[c].value_lower)
                 /\ \A o \in kids \ {c} :
                      RLe(RSub(nodes[o].value, nodes[c].value_lower),
                          nodes[c].gap)
            /\ best \in kids
            /\ \A c \in kids : RLe(nodes[best].gap, nodes[c].gap)
            /\ challenger \in kids \ {best}
            /\ IsGreatest(nodes[challenger].value, kids \ {best}, "value")
            /\ selected \in {best, challenger}
            /\ RLe(Width(nodes, best), Width(nodes, selected))
            /\ RLe(Width(nodes, challenger), Width(nodes, selected))

\* the challenger is selected although best has the greatest value of all
C6_Witness ==
    /\ pc = "selected"
    /\ selected = challenger
    /\ \A c \in ChildNodes(nodes, root) \ {best} :
          RLt(nodes[c].value, nodes[best].value)
    /\ \E c \in ChildNodes(nodes, root) :
          RLt(nodes[c].value, nodes[challenger].value)

\* the count of node n before the transition, 0 when the transition made it
CountBefore(n) == IF n \in DOMAIN nodes THEN nodes[n].count ELSE 0

\* what one iteration of the loop of run does to the counts
EpisodeFrame ==
    /\ sim_steps' = sim_steps + 1
    /\ h' = h + 1
    /\ nodes'[action_node'].kind = "ChanceNode"
    /\ nodes'[action_node'].parent = state_node
    /\ nodes'[state_node'].kind = "DecisionNode"
    /\ nodes'[state_node'].parent = action_node'
    /\ nodes'[action_node'].count = CountBefore(action_node') + 1
    /\ nodes'[state_node'].count = CountBefore(state_node') + 1
    /\ \A n \in DOMAIN nodes' \ {action_node', state_node'} :
          nodes'[n].count = CountBefore(n)
    /\ DOMAIN nodes \subseteq DOMAIN nodes'

RECURSIVE SumOfCounts(_)
SumOfCounts(S) ==
    IF S = {} THEN 0
    ELSE LET n == CHOOSE e \in S : TRUE
         IN  nodes[n].count + SumOfCounts(S \ {n})

\* an episode that reaches its backup made Horizon simulator steps, on
\* Horizon ChanceNodes and Horizon DecisionNodes
EpisodeLength ==
    pc = "check" =>
        /\ sim_steps = Horizon
        /\ Len(observations) = Horizon
        /\ Len(path) = 2 * Horizon
        /\ \A i, j \in 1 .. Len(path) : i # j => path[i] # path[j]

\* the count of an expanded ChanceNode is the sum of its children's counts
CountsAddUp ==
    \A c \in ChanceNodes :
        HasChildren(nodes, c) =>
            nodes[c].count = SumOfCounts(ChildNodes(nodes, c))

\* C9: an episode makes exactly Horizon simulator steps, whatever the done
\* flags, each step adds one to the count of the ChanceNode acted on and of
\* the DecisionNode reached and leaves every other count unchanged, and the
\* count of every expanded ChanceNode is the sum of its children's counts
C9_EpisodeCounts ==
    /\ [][RunStep => EpisodeFrame]_vars
    /\ [](EpisodeLength /\ CountsAddUp)

\* an episode went on to its horizon after a terminal observation
C9_Witness ==
    /\ pc = "check"
    /\ Terminal(observations[1])
    /\ nodes[path[2 * Horizon]].count = 1
    /\ nodes[root].children # <<>>
    /\ \E c \in ChanceNodes : nodes[c].count >= 2

====
